---------------------------- MODULE Spec2Model ----------------------------
(***************************************************************************)
(* A model of github.com/alois9866/godotenv (src/godotenv.go): the line    *)
(* parser, the value decoder, the interpolator, the source aggregator and  *)
(* the environment merge policy of Get.                                    *)
(*                                                                         *)
(* A Go string is a sequence of one-character strings, a Go                *)
(* map[string]string is a function whose domain is the set of its keys,    *)
(* and a Go error is one of the strings "nil", "open", "scan", "format".   *)
(***************************************************************************)
EXTENDS Integers, Sequences, FiniteSets, TLC

VARIABLES
    fs,                 \* the file system: file name -> file
    sysEnv,             \* the process environment: name -> value
    cfg,                \* the config built by Get from its options
    pc,                 \* where the running call stands
    inFileVariables,    \* get: the mapping read returned
    readErr,            \* the error read returned (get drops it)
    envMap,             \* get: the map being returned
    notFoundVariables,  \* get: the not-found list being returned
    i,                  \* get: index of the next requested variable
    lines,              \* parse: the lines the scanner yielded
    lineNo,             \* parse: index of the next line
    parsed,             \* parse: the mapping built so far
    line,               \* parseLine: the line handed in
    presets,            \* parseLine: the mapping handed in
    stripped,           \* parseLine: the line after removeComments
    key,                \* parseLine: the key returned
    value,              \* parseLine: the value returned
    err                 \* parseLine: the error returned

vars == <<fs, sysEnv, cfg, pc, inFileVariables, readErr, envMap,
          notFoundVariables, i, lines, lineNo, parsed, line, presets, stripped,
          key, value, err>>

getVars == <<fs, sysEnv, cfg, inFileVariables, readErr, envMap,
             notFoundVariables, i>>

parseVars == <<lines, lineNo, parsed>>

lineVars == <<line, presets, stripped, key, value, err>>

----------------------------------------------------------------------------
(* Characters *)

BSL == "\\"
DQ == "\""
SQ == "'"
NL == "\n"
CR == "\r"
TAB == "\t"
FF == "\f"

\* Go's regexp class \s
Whitespace == {" ", TAB, NL, CR, FF}

\* the class [A-Z0-9_] of expandVarRegex
IdentChars ==
    {"A", "B", "C", "D", "E", "F", "G", "H", "I", "J", "K", "L", "M",
     "N", "O", "P", "Q", "R", "S", "T", "U", "V", "W", "X", "Y", "Z",
     "0", "1", "2", "3", "4", "5", "6", "7", "8", "9", "_"}

EmptyMap == <<>>

\* m[k] of a Go map: the zero value "" for a missing key
MapGet(m, k) == IF k \in DOMAIN m THEN m[k] ELSE <<>>

\* m[k] = v of a Go map
MapSet(m, k, v) == [x \in DOMAIN m \cup {k} |-> IF x = k THEN v ELSE m[x]]

\* the loop of lines 142-144 with `if _, ok := envMap[k]; !ok`: the first
\* source that assigns a key keeps it
MapMerge_keepFirst(dst, src) ==
    [k \in DOMAIN dst \cup DOMAIN src |-> IF k \in DOMAIN dst THEN dst[k] ELSE src[k]]

\* for k, v := range src { dst[k] = v }
MapMerge(dst, src) ==
    [x \in DOMAIN dst \cup DOMAIN src |-> IF x \in DOMAIN src THEN src[x] ELSE dst[x]]

----------------------------------------------------------------------------
(* Package strings *)

RECURSIVE TrimLeft(_, _)
TrimLeft(s, cutset) ==
    IF s # <<>> /\ Head(s) \in cutset THEN TrimLeft(Tail(s), cutset) ELSE s

RECURSIVE TrimRight(_, _)
TrimRight(s, cutset) ==
    IF s # <<>> /\ s[Len(s)] \in cutset
    THEN TrimRight(SubSeq(s, 1, Len(s) - 1), cutset)
    ELSE s

Trim(s, cutset) == TrimRight(TrimLeft(s, cutset), cutset)

TrimSpace(s) == Trim(s, Whitespace)

HasPrefix(s, prefix) ==
    Len(s) >= Len(prefix) /\ SubSeq(s, 1, Len(prefix)) = prefix

\* strings.Index for a one-character separator: 0-based, -1 when absent
Index(s, c) ==
    IF \E p \in 1..Len(s) : s[p] = c
    THEN (CHOOSE p \in 1..Len(s) : s[p] = c /\ \A q \in 1..(p - 1) : s[q] # c) - 1
    ELSE -1

Contains(s, c) == Index(s, c) # -1

Count(s, c) == Cardinality({p \in 1..Len(s) : s[p] = c})

\* s cut at the 0-based position p of a one-character separator
CutAt(s, p) ==
    IF p = -1 THEN <<s>> ELSE <<SubSeq(s, 1, p), SubSeq(s, p + 2, Len(s))>>

\* strings.SplitN(s, c, 2)
SplitN2(s, c) == CutAt(s, Index(s, c))

RECURSIVE Split(_, _)
Split(s, c) ==
    IF Index(s, c) = -1 THEN <<s>>
    ELSE <<CutAt(s, Index(s, c))[1]>> \o Split(CutAt(s, Index(s, c))[2], c)

RECURSIVE Join(_, _)
Join(segments, c) ==
    IF segments = <<>> THEN <<>>
    ELSE IF Len(segments) = 1 THEN segments[1]
    ELSE segments[1] \o <<c>> \o Join(Tail(segments), c)

----------------------------------------------------------------------------
(* The regular expressions of the package *)

\* `\A'(.*)'\z`: FindStringSubmatch(value) != nil
singleQuotesRegex(s) ==
    Len(s) >= 2 /\ s[1] = SQ /\ s[Len(s)] = SQ /\ ~Contains(s, NL)

\* `\A"(.*)`: the closing quote is not asked for
doubleQuotesRegex_openOnly(s) ==
    Len(s) >= 2 /\ s[1] = DQ /\ ~Contains(s, NL)

\* `\A"(.*)"\z`: FindStringSubmatch(value) != nil
doubleQuotesRegex(s) ==
    Len(s) >= 2 /\ s[1] = DQ /\ s[Len(s)] = DQ /\ ~Contains(s, NL)

\* the function literal handed to escapeRegex.ReplaceAllStringFunc
ExpandNewlines(match) ==
    IF Tail(match) = <<"n">> THEN <<NL>>
    ELSE IF Tail(match) = <<"r">> THEN <<CR>>
    ELSE match

\* escapeRegex (`\\.`) .ReplaceAllStringFunc(s, ExpandNewlines)
RECURSIVE escapeRegex(_)
escapeRegex(s) ==
    IF s = <<>> THEN <<>>
    ELSE IF Len(s) >= 2 /\ s[1] = BSL /\ s[2] # NL
    THEN ExpandNewlines(SubSeq(s, 1, 2)) \o escapeRegex(SubSeq(s, 3, Len(s)))
    ELSE <<s[1]>> \o escapeRegex(Tail(s))

\* unescapeCharsRegex (`\\([^$])`) .ReplaceAllString(s, "$1")
RECURSIVE unescapeCharsRegex(_)
unescapeCharsRegex(s) ==
    IF s = <<>> THEN <<>>
    ELSE IF Len(s) >= 2 /\ s[1] = BSL /\ s[2] # "$"
    THEN <<s[2]>> \o unescapeCharsRegex(SubSeq(s, 3, Len(s)))
    ELSE <<s[1]>> \o unescapeCharsRegex(Tail(s))

\* exportRegex with `(?:export\s*)?`: no whitespace needed after the keyword
StripExport_noSpace(a) ==
    IF HasPrefix(a, <<"e", "x", "p", "o", "r", "t">>)
    THEN TrimLeft(SubSeq(a, 7, Len(a)), Whitespace)
    ELSE a

\* `(?:export\s+)?` of exportRegex, on a string with no leading whitespace
StripExport(a) ==
    IF Len(a) > 6 /\ HasPrefix(a, <<"e", "x", "p", "o", "r", "t">>) /\ a[7] \in Whitespace
    THEN TrimLeft(SubSeq(a, 7, Len(a)), Whitespace)
    ELSE a

\* exportRegex (`^\s*(?:export\s+)?(.*?)\s*$`) .ReplaceAllString(s, "$1")
exportRegex(s) == TrimRight(StripExport(TrimLeft(s, Whitespace)), Whitespace)

\* the character c stands at position p of s
HasAt(s, p, c) == p >= 1 /\ p <= Len(s) /\ s[p] = c

\* an optional character c of a pattern: the position after it
Optional(s, p, c) == IF HasAt(s, p, c) THEN p + 1 ELSE p

\* the end (exclusive) of the run of [A-Z0-9_] that starts at p
RECURSIVE IdentEnd(_, _)
IdentEnd(s, p) ==
    IF p <= Len(s) /\ s[p] \in IdentChars THEN IdentEnd(s, p + 1) ELSE p

(* expandVarRegex, `(\\)?(\$)(\()?{?([A-Z0-9_]+)?}?`, tried at position p *)
(* of s: the positions at which its parts start when it matches there.     *)
HasBackslash(s, p) == HasAt(s, p, BSL) /\ HasAt(s, p + 1, "$")
DollarAt(s, p) == IF HasBackslash(s, p) THEN p + 1 ELSE p
BraceAt(s, p) == Optional(s, DollarAt(s, p) + 1, "(")
IdentAt(s, p) == Optional(s, BraceAt(s, p), "{")
CloseAt(s, p) == IdentEnd(s, IdentAt(s, p))
MatchEnd(s, p) == Optional(s, CloseAt(s, p), "}")

\* expandVarRegex matches at position p of s
expandVarRegex(s, p) == HasBackslash(s, p) \/ HasAt(s, p, "$")

\* the submatches 0..4 of the match at p, held at 1..5
Submatch(s, p) ==
    <<SubSeq(s, p, MatchEnd(s, p) - 1),
      IF HasBackslash(s, p) THEN <<BSL>> ELSE <<>>,
      <<"$">>,
      IF HasAt(s, DollarAt(s, p) + 1, "(") THEN <<"(">> ELSE <<>>,
      SubSeq(s, IdentAt(s, p), CloseAt(s, p) - 1)>>

\* expandVarRegex.FindStringSubmatch(s): submatch[k] of the code is
\* FindStringSubmatch(s)[k + 1]; <<>> stands for nil
FindStringSubmatch(s) ==
    IF \E p \in 1..Len(s) : expandVarRegex(s, p)
    THEN Submatch(s, CHOOSE p \in 1..Len(s) :
                        expandVarRegex(s, p) /\ \A q \in 1..(p - 1) : ~expandVarRegex(s, q))
    ELSE <<>>

----------------------------------------------------------------------------
(* The interpolator *)

\* the body of the function literal handed to ReplaceAllStringFunc
Replacement(s, submatch, m) ==
    IF submatch = <<>> THEN s
    ELSE IF submatch[2] = <<BSL>> \/ submatch[3] = <<"(">> THEN Tail(submatch[1])
    ELSE IF submatch[5] # <<>> THEN MapGet(m, submatch[5])
    ELSE s

ExpandMatch(s, m) == Replacement(s, FindStringSubmatch(s), m)

\* expandVarRegex.ReplaceAllStringFunc from position p on: the leftmost
\* match, then the next one after its end
RECURSIVE ReplaceAllFrom(_, _, _)
ReplaceAllFrom(str, p, m) ==
    IF p > Len(str) THEN <<>>
    ELSE IF expandVarRegex(str, p)
    THEN ExpandMatch(SubSeq(str, p, MatchEnd(str, p) - 1), m)
             \o ReplaceAllFrom(str, MatchEnd(str, p), m)
    ELSE <<str[p]>> \o ReplaceAllFrom(str, p + 1, m)

\* expandVariables applied again to what it returned
expandVariables_rescan(str, m) == ReplaceAllFrom(ReplaceAllFrom(str, 1, m), 1, m)

expandVariables(str, m) == ReplaceAllFrom(str, 1, m)

----------------------------------------------------------------------------
(* The value decoder *)

\* parseValue, line 249: value[1 : len(value)-1]
Unquote(v) == SubSeq(v, 2, Len(v) - 1)

\* parseValue, lines 252-267: the escapes of a double-quoted value
Unescape(v) == unescapeCharsRegex(escapeRegex(v))

\* parseValue without the test singleQuotes == nil of line 269
Decode_expandSingle(v, envMap_) ==
    IF Len(v) > 1
    THEN IF singleQuotesRegex(v) THEN expandVariables(Unquote(v), envMap_)
         ELSE IF doubleQuotesRegex(v) THEN expandVariables(Unescape(Unquote(v)), envMap_)
         ELSE expandVariables(v, envMap_)
    ELSE v

\* parseValue, lines 243-274, on the trimmed value
Decode(v, envMap_) ==
    IF Len(v) > 1
    THEN IF singleQuotesRegex(v) THEN Unquote(v)
         ELSE IF doubleQuotesRegex(v) THEN expandVariables(Unescape(Unquote(v)), envMap_)
         ELSE expandVariables(v, envMap_)
    ELSE v

parseValue(value_, envMap_) == Decode(Trim(value_, {" "}), envMap_)

----------------------------------------------------------------------------
(* The comment stripper *)

\* removeComments, line 219
OneQuote(segment) == Count(segment, DQ) = 1 \/ Count(segment, SQ) = 1

\* quotesAreOpen after lines 219-226
Toggle(segment, quotesAreOpen) ==
    IF OneQuote(segment) THEN ~quotesAreOpen ELSE quotesAreOpen

\* segmentsToKeep after lines 219-226
KeepClosing(segment, quotesAreOpen, segmentsToKeep) ==
    IF OneQuote(segment) /\ quotesAreOpen
    THEN Append(segmentsToKeep, segment)
    ELSE segmentsToKeep

\* segmentsToKeep after lines 228-230
KeepOpen(segment, quotesAreOpen, segmentsToKeep) ==
    IF Len(segmentsToKeep) = 0 \/ quotesAreOpen
    THEN Append(segmentsToKeep, segment)
    ELSE segmentsToKeep

\* the loop of removeComments over the segments that are left
RECURSIVE KeepSegments(_, _, _)
KeepSegments(segments, quotesAreOpen, segmentsToKeep) ==
    IF segments = <<>> THEN segmentsToKeep
    ELSE KeepSegments(Tail(segments),
                      Toggle(Head(segments), quotesAreOpen),
                      KeepOpen(Head(segments),
                               Toggle(Head(segments), quotesAreOpen),
                               KeepClosing(Head(segments), quotesAreOpen, segmentsToKeep)))

removeComments(line_) ==
    IF Contains(line_, "#")
    THEN Join(KeepSegments(Split(line_, "#"), FALSE, <<>>), "#")
    ELSE line_

----------------------------------------------------------------------------
(* The key/value splitter and the document parser *)

\* parseLine without the yaml test of lines 200-203: `=` splits when there is one
SplitLine_equalsFirst(l) ==
    IF Index(l, "=") # -1 THEN SplitN2(l, "=") ELSE SplitN2(l, ":")

\* parseLine, lines 197-203
SplitLine(l) ==
    IF Index(l, ":") # -1 /\ (Index(l, ":") < Index(l, "=") \/ Index(l, "=") = -1)
    THEN SplitN2(l, ":")
    ELSE SplitN2(l, "=")

\* parseLine, lines 204-210
KeyValue(splitString, envMap_) ==
    IF Len(splitString) # 2
    THEN [key |-> <<>>, value |-> <<>>, err |-> "format"]
    ELSE [key |-> exportRegex(splitString[1]),
          value |-> parseValue(splitString[2], envMap_),
          err |-> "nil"]

\* parseLine with parseValue(splitString[1], nil) at line 209
parseLine_noPresets(line_, envMap_) == KeyValue(SplitLine(removeComments(line_)), EmptyMap)

parseLine(line_, envMap_) == KeyValue(SplitLine(removeComments(line_)), envMap_)

isIgnoredLine(line_) ==
    Len(TrimSpace(line_)) = 0 \/ HasPrefix(TrimSpace(line_), <<"#">>)

\* the loop of parse over the lines that are left; kv is what parseLine
\* returned for the line before them
RECURSIVE ParseLines(_, _)
RECURSIVE ParsedLine(_, _, _)
\* parse without the return of line 185: a line parseLine fails on is skipped
ParsedLine_continue(kv, rest, envMap_) ==
    IF kv.err # "nil" THEN ParseLines(rest, envMap_)
    ELSE ParseLines(rest, MapSet(envMap_, kv.key, kv.value))

ParsedLine(kv, rest, envMap_) ==
    IF kv.err # "nil" THEN [envMap |-> envMap_, err |-> kv.err]
    ELSE ParseLines(rest, MapSet(envMap_, kv.key, kv.value))

ParseLines(rest, envMap_) ==
    IF rest = <<>> THEN [envMap |-> envMap_, err |-> "nil"]
    ELSE IF isIgnoredLine(Head(rest)) THEN ParseLines(Tail(rest), envMap_)
    ELSE ParsedLine(parseLine(Head(rest), envMap_), Tail(rest), envMap_)

\* r is an open file: the lines its scanner yields and the scanner's error
parse(r) ==
    IF r.scanErr # "nil" THEN [envMap |-> EmptyMap, err |-> r.scanErr]
    ELSE ParseLines(r.lines, EmptyMap)

----------------------------------------------------------------------------
(* The source aggregator *)

readFile(files, filename) ==
    IF files[filename].openErr # "nil"
    THEN [envMap |-> EmptyMap, err |-> files[filename].openErr]
    ELSE parse(files[filename])

\* the loop of read over the file names that are left; individual is what
\* readFile returned for the name before them
RECURSIVE ReadFiles(_, _, _)
RECURSIVE ReadOne(_, _, _, _)
\* read that merges what readFile returned before it looks at the error
ReadOne_mergeFirst(individual, files, filenames, envMap_) ==
    IF individual.err # "nil"
    THEN [envMap |-> MapMerge(envMap_, individual.envMap), err |-> individual.err]
    ELSE ReadFiles(files, filenames, MapMerge(envMap_, individual.envMap))

ReadOne(individual, files, filenames, envMap_) ==
    IF individual.err # "nil" THEN [envMap |-> envMap_, err |-> individual.err]
    ELSE ReadFiles(files, filenames, MapMerge(envMap_, individual.envMap))

ReadFiles(files, filenames, envMap_) ==
    IF filenames = <<>> THEN [envMap |-> envMap_, err |-> "nil"]
    ELSE ReadOne(readFile(files, Head(filenames)), files, Tail(filenames), envMap_)

\* read with `return nil, individualErr` at line 139
read_nilOnError(files, filenames) ==
    IF ReadFiles(files, filenames, EmptyMap).err # "nil"
    THEN [envMap |-> EmptyMap, err |-> ReadFiles(files, filenames, EmptyMap).err]
    ELSE ReadFiles(files, filenames, EmptyMap)

read(files, filenames) == ReadFiles(files, filenames, EmptyMap)

\* ".env"; a file name is a pair so that the names From is given can be numbered
DefaultFilename == <<".env", 0>>

filenamesOrDefault(filenames) ==
    IF Len(filenames) = 0 THEN <<DefaultFilename>> ELSE filenames

----------------------------------------------------------------------------
(* The environment merge policy *)

\* os.Environ(): one "NAME=value" string per variable
Environ(env) == {k \o <<"=">> \o env[k] : k \in DOMAIN env}

\* os.Getenv(name): "" for an unset variable
Getenv(env, name) == MapGet(env, name)

\* systemVariables, lines 319-322, over the strings os.Environ() returned
SplitEnviron(environ) ==
    [k \in {SplitN2(l, "=")[1] : l \in environ} |->
        SplitN2(CHOOSE l \in environ : SplitN2(l, "=")[1] = k, "=")[2]]

\* systemVariables that leaves out the variables set to the empty string
systemVariables_skipEmpty(env) ==
    [k \in {x \in DOMAIN env : env[x] # <<>>} |-> env[k]]

systemVariables(env) == SplitEnviron(Environ(env))

\* getAllVariables, lines 301-313, with the map systemVariables() returned
MergeSystem(fromEnvDotFiles, systemFirst, sys) ==
    [k \in DOMAIN fromEnvDotFiles \cup DOMAIN sys |->
        IF k \in DOMAIN sys /\ ((k \in DOMAIN fromEnvDotFiles /\ systemFirst)
                                 \/ k \notin DOMAIN fromEnvDotFiles)
        THEN sys[k]
        ELSE fromEnvDotFiles[k]]

\* getAllVariables with the test of line 308 always true
getAllVariables_systemAlways(fromEnvDotFiles, systemFirst, env) ==
    MergeSystem(fromEnvDotFiles, TRUE, systemVariables(env))

getAllVariables(fromEnvDotFiles, systemFirst, env) ==
    MergeSystem(fromEnvDotFiles, systemFirst, systemVariables(env))

\* get, lines 110-127: one iteration of the loop over cfg.variables, with the
\* value os.Getenv returned; acc holds envMap and notFoundVariables
Resolve(systemFirst, inFile, acc, variable, sysValue) ==
    IF sysValue # <<>> /\ systemFirst
    THEN [envMap |-> MapSet(acc.envMap, variable, sysValue),
          notFoundVariables |-> acc.notFoundVariables]
    ELSE IF variable \in DOMAIN inFile
    THEN [envMap |-> MapSet(acc.envMap, variable, inFile[variable]),
          notFoundVariables |-> acc.notFoundVariables]
    ELSE IF sysValue # <<>>
    THEN [envMap |-> MapSet(acc.envMap, variable, sysValue),
          notFoundVariables |-> acc.notFoundVariables]
    ELSE [envMap |-> acc.envMap,
          notFoundVariables |-> Append(acc.notFoundVariables, variable)]

\* get without the continue of line 115: the file value always overwrites
getVariable_noContinue(systemFirst, inFile, env, acc, variable) ==
    Resolve(FALSE, inFile, acc, variable, Getenv(env, variable))

\* get with os.LookupEnv in place of the test value != "" of line 112
getVariable_lookupEnv(systemFirst, inFile, env, acc, variable) ==
    IF variable \in DOMAIN env /\ env[variable] = <<>> /\ variable \notin DOMAIN inFile
    THEN [envMap |-> MapSet(acc.envMap, variable, <<>>),
          notFoundVariables |-> acc.notFoundVariables]
    ELSE Resolve(systemFirst, inFile, acc, variable, Getenv(env, variable))

getVariable(systemFirst, inFile, env, acc, variable) ==
    Resolve(systemFirst, inFile, acc, variable, Getenv(env, variable))

RECURSIVE GetVariables(_, _, _, _, _)
GetVariables(systemFirst, inFile, env, acc, variables) ==
    IF variables = <<>> THEN acc
    ELSE GetVariables(systemFirst, inFile, env,
                      getVariable(systemFirst, inFile, env, acc, Head(variables)),
                      Tail(variables))

\* get, lines 103-130, with the mapping read returned
GetFrom(cfg_, inFile, env) ==
    IF Len(cfg_.variables) = 0
    THEN [envMap |-> getAllVariables(inFile, cfg_.systemFirst, env),
          notFoundVariables |-> <<>>]
    ELSE GetVariables(cfg_.systemFirst, inFile, env,
                      [envMap |-> EmptyMap, notFoundVariables |-> <<>>],
                      cfg_.variables)

\* get(cfg) as a function of the file system and the environment it reads
get(cfg_, files, env) ==
    GetFrom(cfg_, read(files, filenamesOrDefault(cfg_.filenames)).envMap, env)

----------------------------------------------------------------------------
(* Get: the files, environments and options a call is made with *)

\* the longest list of file names From is given
MaxFiles == 2
\* the longest list of names Variables is given
MaxVars == 2

Str1(a) == <<a>>
Str3(a, b, c) == <<a, b, c>>

Document(text) == [openErr |-> "nil", lines |-> text, scanErr |-> "nil"]
\* os.Open fails: no such file
FileMissing == [openErr |-> "open", lines |-> <<>>, scanErr |-> "nil"]
\* a directory: os.Open succeeds, the scanner's first read fails
FileDirectory == [openErr |-> "nil", lines |-> <<>>, scanErr |-> "scan"]
FileEmpty == Document(<<>>)

Files ==
    {FileEmpty,
     Document(<<Str3("A", "=", "1")>>),
     Document(<<<<"B", "=">>, Str3("A", "=", "2")>>),
     Document(<<Str3("B", "=", "x"), Str3("b", "a", "d"), Str3("A", "=", "3")>>),
     FileMissing,
     FileDirectory}

Filename(k) == <<".env", k>>
Filenames == {DefaultFilename} \cup {Filename(k) : k \in 1..MaxFiles}

Names == {Str1("A"), Str1("B")}

VariableLists == UNION {[1..n -> Names] : n \in 0..MaxVars}

\* each name is unset, set to the empty string or set to a value
Environments ==
    UNION {[D -> {<<>>, Str1("9"), Str3("8", "=", "8")}] : D \in SUBSET Names}

InitLine ==
    /\ lines = <<>>
    /\ lineNo = 1
    /\ parsed = EmptyMap
    /\ line = <<>>
    /\ presets = EmptyMap
    /\ stripped = <<>>
    /\ key = <<>>
    /\ value = <<>>
    /\ err = "nil"

\* the file names in a list
Used(filenames) == {filenames[k] : k \in 1..Len(filenames)}

\* a file system that holds the files f under the names it is read by
FileSystem(f) == [x \in Filenames |-> IF x \in DOMAIN f THEN f[x] ELSE FileMissing]

Configs ==
    {[variables |-> variables, filenames |-> [k \in 1..n |-> Filename(k)],
      systemFirst |-> systemFirst] :
        variables \in VariableLists, n \in 0..MaxFiles, systemFirst \in BOOLEAN}

\* Get has applied its options to config{}; nothing is read yet
Init ==
    /\ cfg \in Configs
    /\ \E f \in [Used(filenamesOrDefault(cfg.filenames)) -> Files] : fs = FileSystem(f)
    /\ sysEnv \in Environments
    /\ pc = "get"
    /\ inFileVariables = EmptyMap
    /\ readErr = "nil"
    /\ envMap = EmptyMap
    /\ notFoundVariables = <<>>
    /\ i = 1
    /\ InitLine

\* get, line 101: inFileVariables, _ := read(filenamesOrDefault(cfg.filenames))
Read ==
    /\ pc = "get"
    /\ inFileVariables' = read(fs, filenamesOrDefault(cfg.filenames)).envMap
    /\ readErr' = read(fs, filenamesOrDefault(cfg.filenames)).err
    /\ pc' = "read"
    /\ UNCHANGED <<fs, sysEnv, cfg, envMap, notFoundVariables, i>>
    /\ UNCHANGED parseVars
    /\ UNCHANGED lineVars

\* get, lines 103-105: the full-set mode
GetAllVariables ==
    /\ pc = "read"
    /\ Len(cfg.variables) = 0
    /\ envMap' = getAllVariables(inFileVariables, cfg.systemFirst, sysEnv)
    /\ notFoundVariables' = <<>>
    /\ pc' = "return"
    /\ UNCHANGED <<fs, sysEnv, cfg, inFileVariables, readErr, i>>
    /\ UNCHANGED parseVars
    /\ UNCHANGED lineVars

\* get, lines 109-128: one iteration of the loop over cfg.variables
GetVariable ==
    /\ pc = "read"
    /\ Len(cfg.variables) # 0
    /\ i <= Len(cfg.variables)
    /\ envMap' = getVariable(cfg.systemFirst, inFileVariables, sysEnv,
                             [envMap |-> envMap, notFoundVariables |-> notFoundVariables],
                             cfg.variables[i]).envMap
    /\ notFoundVariables' = getVariable(cfg.systemFirst, inFileVariables, sysEnv,
                             [envMap |-> envMap, notFoundVariables |-> notFoundVariables],
                             cfg.variables[i]).notFoundVariables
    /\ i' = i + 1
    /\ UNCHANGED <<fs, sysEnv, cfg, pc, inFileVariables, readErr>>
    /\ UNCHANGED parseVars
    /\ UNCHANGED lineVars

\* get, line 130: return envMap, notFoundVariables
Return ==
    /\ pc = "read"
    /\ Len(cfg.variables) # 0
    /\ i > Len(cfg.variables)
    /\ pc' = "return"
    /\ UNCHANGED <<fs, sysEnv, cfg, inFileVariables, readErr, envMap, notFoundVariables, i>>
    /\ UNCHANGED parseVars
    /\ UNCHANGED lineVars

Next == Read \/ GetAllVariables \/ GetVariable \/ Return

Spec == Init /\ [][Next]_vars

----------------------------------------------------------------------------
(* parse, line by line *)

\* get is not running
IdleGet ==
    /\ cfg = [variables |-> <<>>, filenames |-> <<>>, systemFirst |-> FALSE]
    /\ fs = FileSystem(EmptyMap)
    /\ sysEnv = EmptyMap
    /\ inFileVariables = EmptyMap
    /\ readErr = "nil"
    /\ envMap = EmptyMap
    /\ notFoundVariables = <<>>
    /\ i = 1

\* parse has scanned the lines of one of the documents and made its map
\* (lines 168-179)
InitParse(documents) ==
    /\ IdleGet
    /\ lines \in documents
    /\ lineNo = 1
    /\ parsed = EmptyMap
    /\ pc = "parse"
    /\ line = <<>>
    /\ presets = EmptyMap
    /\ stripped = <<>>
    /\ key = <<>>
    /\ value = <<>>
    /\ err = "nil"

\* parse, lines 183-187: parseLine on a line that is not ignored; its error
\* ends parse, its key and value go into the map
ParseLine ==
    /\ pc = "parse"
    /\ lineNo <= Len(lines)
    /\ ~isIgnoredLine(lines[lineNo])
    /\ line' = lines[lineNo]
    /\ presets' = parsed
    /\ stripped' = removeComments(lines[lineNo])
    /\ key' = parseLine(lines[lineNo], parsed).key
    /\ value' = parseLine(lines[lineNo], parsed).value
    /\ err' = parseLine(lines[lineNo], parsed).err
    /\ parsed' = IF err' = "nil" THEN MapSet(parsed, key', value') ELSE parsed
    /\ pc' = IF err' = "nil" THEN "parse" ELSE "failed"
    /\ lineNo' = lineNo + 1
    /\ UNCHANGED lines
    /\ UNCHANGED getVars

\* parse, line 182: an ignored line
IgnoreLine ==
    /\ pc = "parse"
    /\ lineNo <= Len(lines)
    /\ isIgnoredLine(lines[lineNo])
    /\ lineNo' = lineNo + 1
    /\ UNCHANGED <<lines, parsed, pc>>
    /\ UNCHANGED lineVars
    /\ UNCHANGED getVars

\* parse, line 191: return envMap, err
ParseReturn ==
    /\ pc = "parse"
    /\ lineNo > Len(lines)
    /\ pc' = "parsed"
    /\ UNCHANGED parseVars
    /\ UNCHANGED lineVars
    /\ UNCHANGED getVars

NextParse == ParseLine \/ IgnoreLine \/ ParseReturn

\* the strings made of at most n of the tokens T
RECURSIVE TokStrings(_, _)
TokStrings(T, n) ==
    IF n = 0 THEN {<<>>}
    ELSE {<<>>} \cup {t \o r : t \in T, r \in TokStrings(T, n - 1)}

\* the line before the one under study: a comment, or the definition A=v
Preambles == {Str3("#", " ", "c"), Str3("A", "=", "v")}

Assign(k, v) == k \o <<"=">> \o v

\* the documents that give K one of the values after a preamble
TwoLines(values) == {<<first, Assign(Str1("K"), v)>> : first \in Preambles, v \in values}

----------------------------------------------------------------------------
(* Single-quoted values *)

\* the longest single-quoted body, in tokens
MaxSQ == 3

SQTokens ==
    {<<"$", "A">>, <<"$", "{", "A", "}">>, <<BSL, "n">>, <<BSL, BSL>>, <<BSL, "$">>,
     <<"x">>, <<" ">>, <<SQ>>, <<DQ>>}

SQValues == {<<SQ>> \o body \o <<SQ>> : body \in TokStrings(SQTokens, MaxSQ)}

InitSQ == InitParse(TwoLines(SQValues))

SpecSQ == InitSQ /\ [][NextParse]_vars

----------------------------------------------------------------------------
(* Double-quoted values *)

\* the longest double-quoted body, in tokens
MaxDQ == 3

DQTokens ==
    {<<"$", "A">>, <<"$", "{", "A", "}">>, <<BSL, "$", "A">>, <<BSL, "$", "{", "A", "}">>,
     <<BSL, BSL>>, <<BSL, "n">>, <<BSL, "r">>, <<BSL, DQ>>, <<BSL, "x">>,
     <<"$">>, <<"n">>, <<"x">>}

DQValues == {<<DQ>> \o body \o <<DQ>> : body \in TokStrings(DQTokens, MaxDQ)}

InitDQ == InitParse(TwoLines(DQValues))

SpecDQ == InitDQ /\ [][NextParse]_vars

----------------------------------------------------------------------------
(* Values with references *)

\* the longest value with references, in tokens
MaxRef == 3

\* B is defined by no line
RefTokens ==
    {<<"$", "A">>, <<"$", "{", "A", "}">>, <<"$", "B">>, <<"$", "{", "B", "}">>,
     <<"x">>, <<"}">>, <<" ">>}

\* each text unquoted and in double quotes
RefValues ==
    TokStrings(RefTokens, MaxRef)
        \cup {<<DQ>> \o text \o <<DQ>> : text \in TokStrings(RefTokens, MaxRef)}

InitRef == InitParse(TwoLines(RefValues))

SpecRef == InitRef /\ [][NextParse]_vars

----------------------------------------------------------------------------
(* Values followed by comments *)

\* the longest content of a quoted field, in tokens
MaxField == 3
\* the longest comment, in tokens
MaxComment == 2

\* the content of a field in the quote q: #, a letter, the other quote
FieldTokens(q) == {<<"#">>, <<"x">>, IF q = DQ THEN <<SQ>> ELSE <<DQ>>}

FieldsIn(q) == {<<q>> \o content \o <<q>> : content \in TokStrings(FieldTokens(q), MaxField)}

Fields == FieldsIn(DQ) \cup FieldsIn(SQ)

CommentTokens == {<<"#">>, <<"c">>, <<SQ>>, <<DQ>>}

\* a comment, with and without a space before its #
Comments ==
    {pad \o <<"#">> \o comment : pad \in {<<>>, <<" ">>}, comment \in TokStrings(CommentTokens, MaxComment)}

\* a quoted field, alone or before a comment, and an unquoted value before a
\* comment
CommentValues ==
    Fields \cup {f \o c : f \in Fields \cup {<<"v">>}, c \in Comments}

InitComment == InitParse(TwoLines(CommentValues))

SpecComment == InitComment /\ [][NextParse]_vars

----------------------------------------------------------------------------
(* Lines with several delimiters *)

\* the longest line, in characters
MaxSplit == 4

SplitChars == {<<"a">>, <<"b">>, <<"=">>, <<":">>}

\* the documents that hold one of the lines after a preamble
After(ls) == {<<first, l>> : first \in Preambles, l \in ls}

InitSplit == InitParse(After(TokStrings(SplitChars, MaxSplit)))

SpecSplit == InitSplit /\ [][NextParse]_vars

----------------------------------------------------------------------------
(* Keys *)

\* the longest left-hand side, in tokens
MaxKey == 4

Export == <<"e", "x", "p", "o", "r", "t">>

KeyTokens == {Export, <<" ">>, <<TAB>>, <<"F">>, <<"_">>, <<".">>}

\* each left-hand side before `=1`
KeyLines == {lhs \o <<"=", "1">> : lhs \in TokStrings(KeyTokens, MaxKey)}

InitKey == InitParse(After(KeyLines))

SpecKey == InitKey /\ [][NextParse]_vars

----------------------------------------------------------------------------
(* Documents with a line that cannot be split *)

\* the longest document, in lines
MaxLines == 3

\* assignments of A and B, two lines without a delimiter (the second has one
\* in its comment only) and a comment line
StopLines ==
    {Str3("A", "=", "1"), Str3("A", "=", "2"), Str3("B", ":", "1"),
     Str3("b", "a", "d"), <<"b", " ", "#", "A", "=", "9">>, Str3("#", " ", "c")}

\* the documents of at most n of the lines ls
DocumentsOf(ls, n) == UNION {[1..k -> ls] : k \in 0..n}

InitStop == InitParse(DocumentsOf(StopLines, MaxLines))

SpecStop == InitStop /\ [][NextParse]_vars

----------------------------------------------------------------------------
(* read, source by source *)

\* the files read is given: A is assigned a literal, and its own value with
\* a 2 after it; B is assigned the value of A; one line cannot be split
Sources ==
    {FileEmpty,
     Document(<<Str3("A", "=", "1")>>),
     Document(<<<<"A", "=", "$", "{", "A", "}", "2">>>>),
     Document(<<Str3("A", "=", "1"), <<"A", "=", "$", "{", "A", "}", "2">>>>),
     Document(<<<<"B", "=", "$", "A">>>>),
     Document(<<<<"B", "=", "$", "A">>, Str3("A", "=", "1")>>),
     Document(<<Str3("A", "=", "1"), <<"B", "=", "$", "A">>>>),
     Document(<<Str3("A", "=", "1"), Str3("b", "a", "d"), <<"B", "=", "$", "A">>>>),
     FileMissing,
     FileDirectory}

\* read has made its map (line 134); the system may define A
InitRead ==
    /\ cfg \in {c \in Configs : c.variables = <<>> /\ ~c.systemFirst}
    /\ \E f \in [Used(filenamesOrDefault(cfg.filenames)) -> Sources] : fs = FileSystem(f)
    /\ sysEnv \in {EmptyMap, [n \in {Str1("A")} |-> Str1("9")]}
    /\ pc = "reading"
    /\ inFileVariables = EmptyMap
    /\ readErr = "nil"
    /\ envMap = EmptyMap
    /\ notFoundVariables = <<>>
    /\ i = 1
    /\ InitLine

\* read, lines 137-144: readFile on the next name; its error ends read, its
\* mapping is merged into the map
ReadFile ==
    /\ pc = "reading"
    /\ i <= Len(filenamesOrDefault(cfg.filenames))
    /\ readErr' = readFile(fs, filenamesOrDefault(cfg.filenames)[i]).err
    /\ inFileVariables' =
          IF readErr' = "nil"
          THEN MapMerge(inFileVariables, readFile(fs, filenamesOrDefault(cfg.filenames)[i]).envMap)
          ELSE inFileVariables
    /\ pc' = IF readErr' = "nil" THEN "reading" ELSE "readFailed"
    /\ i' = IF readErr' = "nil" THEN i + 1 ELSE i
    /\ UNCHANGED <<fs, sysEnv, cfg, envMap, notFoundVariables>>
    /\ UNCHANGED parseVars
    /\ UNCHANGED lineVars

\* read, line 147: return envMap, nil
ReadReturn ==
    /\ pc = "reading"
    /\ i > Len(filenamesOrDefault(cfg.filenames))
    /\ pc' = "readDone"
    /\ UNCHANGED getVars
    /\ UNCHANGED parseVars
    /\ UNCHANGED lineVars

NextRead == ReadFile \/ ReadReturn

SpecRead == InitRead /\ [][NextRead]_vars

----------------------------------------------------------------------------
(* Values with a parenthesis after `$` *)

\* the longest such value, in tokens
MaxParen == 3

ParenTokens ==
    {<<"$", "(", "A", ")">>, <<"$", "(", "B", ")">>, <<"$", "A">>, <<"x">>}

\* each text unquoted and in double quotes
ParenValues ==
    TokStrings(ParenTokens, MaxParen)
        \cup {<<DQ>> \o text \o <<DQ>> : text \in TokStrings(ParenTokens, MaxParen)}

InitParen == InitParse(TwoLines(ParenValues))

SpecParen == InitParen /\ [][NextParse]_vars

----------------------------------------------------------------------------
(* Values with quotes that may not close *)

\* the longest such value, in tokens
MaxQuote == 3

QuoteTokens == {<<DQ>>, <<SQ>>, <<"x">>, <<" ">>, <<BSL, "n">>, <<"$", "A">>}

InitQuote == InitParse(TwoLines(TokStrings(QuoteTokens, MaxQuote)))

SpecQuote == InitQuote /\ [][NextParse]_vars

----------------------------------------------------------------------------
(* References to a value that holds a reference *)

\* the longest value that refers to A, in tokens
MaxPass == 2

\* B is defined or not
PassFirst == {Str3("B", "=", "w"), Str3("#", " ", "c")}

\* A is given the text $B or ${B}: in single quotes, escaped in double
\* quotes, escaped and unquoted
PassSecond ==
    {<<"A", "=", SQ, "$", "B", SQ>>,
     <<"A", "=", SQ, "$", "{", "B", "}", SQ>>,
     <<"A", "=", DQ, BSL, "$", "B", DQ>>,
     <<"A", "=", BSL, "$", "B">>}

PassTokens == {<<"$", "A">>, <<"$", "{", "A", "}">>, <<"$", "B">>, <<"x">>}

\* K is given a text that may refer to A, unquoted and in double quotes
PassThird ==
    {Assign(Str1("K"), text) : text \in TokStrings(PassTokens, MaxPass)}
        \cup {Assign(Str1("K"), <<DQ>> \o text \o <<DQ>>) : text \in TokStrings(PassTokens, MaxPass)}

PassDocuments == {<<l1, l2, l3>> : l1 \in PassFirst, l2 \in PassSecond, l3 \in PassThird}

InitPass == InitParse(PassDocuments)

SpecPass == InitPass /\ [][NextParse]_vars

----------------------------------------------------------------------------
(* Get: the selective and the full-set mode *)

Requested == {cfg.variables[k] : k \in 1..Len(cfg.variables)}

\* the value the system environment holds for a name, "" when it is unset
SystemValue(n) == IF n \in DOMAIN sysEnv THEN sysEnv[n] ELSE <<>>

Selective == pc = "return" /\ Len(cfg.variables) # 0

FullSet == pc = "return" /\ Len(cfg.variables) = 0

Holds(m, n, v) == n \in DOMAIN m /\ m[n] = v

\* C1: in selective mode each requested name resolves to its non-empty system
\* value under PrioritizeSystem, otherwise to the value the files give it,
\* otherwise to its non-empty system value.
C1_SelectivePrecedence ==
    Selective =>
        \A n \in Requested :
            IF SystemValue(n) # <<>> /\ cfg.systemFirst
            THEN Holds(envMap, n, SystemValue(n))
            ELSE IF n \in DOMAIN inFileVariables
            THEN Holds(envMap, n, inFileVariables[n])
            ELSE SystemValue(n) # <<>> => Holds(envMap, n, SystemValue(n))

\* a name the files and the system both define, returned with the file value
C1_Witness ==
    /\ Selective
    /\ ~cfg.systemFirst
    /\ \E n \in Requested :
          /\ n \in DOMAIN inFileVariables
          /\ SystemValue(n) # <<>>
          /\ SystemValue(n) # inFileVariables[n]
          /\ Holds(envMap, n, inFileVariables[n])

NowhereFound(n) == n \notin DOMAIN inFileVariables /\ SystemValue(n) = <<>>

InNotFound(n) == \E k \in 1..Len(notFoundVariables) : notFoundVariables[k] = n

\* C2: in selective mode every requested name is a key of the map or in the
\* not-found list, never both; the map has no other key; the not-found list
\* is the request list cut down to the names the files do not define and the
\* system leaves unset or empty.
C2_FoundOrNotFound ==
    Selective =>
        /\ \A n \in Requested : (n \in DOMAIN envMap) # InNotFound(n)
        /\ DOMAIN envMap \subseteq Requested
        /\ notFoundVariables = SelectSeq(cfg.variables, NowhereFound)

\* a name set to the empty string in the system is reported not found, beside
\* a name that is found
C2_Witness ==
    /\ Selective
    /\ \E n \in Requested :
          /\ n \in DOMAIN sysEnv
          /\ sysEnv[n] = <<>>
          /\ InNotFound(n)
    /\ \E n \in Requested : n \in DOMAIN envMap

\* C3: in full-set mode the map's keys are the keys of the files and of the
\* system; a key of both takes the system value under PrioritizeSystem and the
\* file value otherwise; the not-found list is empty.
C3_FullSetUnion ==
    FullSet =>
        /\ DOMAIN envMap = DOMAIN inFileVariables \cup DOMAIN sysEnv
        /\ \A k \in DOMAIN envMap :
              envMap[k] = IF k \in DOMAIN sysEnv
                             /\ (cfg.systemFirst \/ k \notin DOMAIN inFileVariables)
                          THEN sysEnv[k]
                          ELSE inFileVariables[k]
        /\ notFoundVariables = <<>>

\* a key of both sources, returned with the file value, beside a key of the
\* system alone
C3_Witness ==
    /\ FullSet
    /\ ~cfg.systemFirst
    /\ \E k \in DOMAIN inFileVariables :
          /\ k \in DOMAIN sysEnv
          /\ sysEnv[k] # inFileVariables[k]
          /\ envMap[k] = inFileVariables[k]
    /\ \E k \in DOMAIN sysEnv : k \notin DOMAIN inFileVariables /\ k \in DOMAIN envMap

----------------------------------------------------------------------------
(* Get after a source has failed *)

\* the position in the list of the first source that fails
FirstFailed(files, filenames) ==
    CHOOSE k \in 1..Len(filenames) :
        /\ readFile(files, filenames[k]).err # "nil"
        /\ \A j \in 1..(k - 1) : readFile(files, filenames[j]).err = "nil"

ReadNames == filenamesOrDefault(cfg.filenames)

\* the sources up to the failed one, which is replaced by an empty readable
\* file: sources that are read without error and hold the partial content
RepairedFiles == [fs EXCEPT ![ReadNames[FirstFailed(fs, ReadNames)]] = FileEmpty]

RepairedConfig ==
    [cfg EXCEPT !.filenames =
        IF cfg.filenames = <<>> THEN <<>>
        ELSE SubSeq(cfg.filenames, 1, FirstFailed(fs, ReadNames))]

Outcome == [envMap |-> envMap, notFoundVariables |-> notFoundVariables]

\* C4 as stated: what Get returns after a failed source differs from what it
\* returns after a successful read of sources holding the same partial content.
C4_GetSurfacesError ==
    (pc = "return" /\ readErr # "nil") =>
        Outcome # get(RepairedConfig, RepairedFiles, sysEnv)

\* C4, amended: read hands the error and the partial mapping to get, which
\* drops the error; what Get returns after a failed source is what it returns
\* after a successful read of sources holding the same partial content.
C4_GetDropsError ==
    (pc = "return" /\ readErr # "nil") =>
        /\ read(RepairedFiles, filenamesOrDefault(RepairedConfig.filenames))
              = [envMap |-> inFileVariables, err |-> "nil"]
        /\ Outcome = get(RepairedConfig, RepairedFiles, sysEnv)

\* Get has returned after the second source failed, with a variable of the
\* first source in its map
C4_Witness ==
    /\ pc = "return"
    /\ readErr # "nil"
    /\ inFileVariables # EmptyMap
    /\ \E k \in DOMAIN inFileVariables : Holds(envMap, k, inFileVariables[k])

----------------------------------------------------------------------------
(* Values in single quotes *)

\* t occurs in s
ContainsSeq(s, t) == \E p \in 1..(Len(s) - Len(t) + 1) : SubSeq(s, p, p + Len(t) - 1) = t

\* the line gives K a value wrapped in the quote q
IsQuoted(l, q) == Len(l) >= 4 /\ SubSeq(l, 1, 3) = <<"K", "=", q>> /\ l[Len(l)] = q

\* the text between the quotes
QuotedBody(l) == SubSeq(l, 4, Len(l) - 1)

\* C5: a value wrapped in single quotes is returned as the text between the
\* quotes: no reference in it is substituted, whether or not the name is
\* defined, and no backslash pair in it is decoded.
C5_SingleQuotedLiteral ==
    IsQuoted(line, SQ) =>
        /\ err = "nil"
        /\ key = Str1("K")
        /\ value = QuotedBody(line)

\* a single-quoted value with a reference to a defined name and a backslash
\* pair has been parsed
C5_Witness ==
    /\ IsQuoted(line, SQ)
    /\ Holds(presets, Str1("A"), Str1("v"))
    /\ ContainsSeq(value, <<"$", "A">>)
    /\ ContainsSeq(value, <<BSL, "n">>)

----------------------------------------------------------------------------
(* Values in double quotes *)

\* what a backslash pair with the second character c stands for
Escaped(c) == IF c = "n" THEN <<NL>> ELSE IF c = "r" THEN <<CR>> ELSE <<c>>

\* s starts with ${NAME}
BracedRef(s) ==
    /\ Len(s) >= 4
    /\ s[1] = "$"
    /\ s[2] = "{"
    /\ IdentEnd(s, 3) > 3
    /\ HasAt(s, IdentEnd(s, 3), "}")

\* s starts with $NAME
PlainRef(s) == Len(s) >= 2 /\ s[1] = "$" /\ IdentEnd(s, 2) > 2

\* s read from left to right: a backslash pair stands for its character, a
\* reference that no backslash escapes for the value m holds for its name
RECURSIVE Reading(_, _)
Reading(s, m) ==
    IF s = <<>> THEN <<>>
    ELSE IF s[1] = BSL /\ Len(s) >= 2
    THEN Escaped(s[2]) \o Reading(SubSeq(s, 3, Len(s)), m)
    ELSE IF BracedRef(s)
    THEN MapGet(m, SubSeq(s, 3, IdentEnd(s, 3) - 1))
             \o Reading(SubSeq(s, IdentEnd(s, 3) + 1, Len(s)), m)
    ELSE IF PlainRef(s)
    THEN MapGet(m, SubSeq(s, 2, IdentEnd(s, 2) - 1))
             \o Reading(SubSeq(s, IdentEnd(s, 2), Len(s)), m)
    ELSE <<s[1]>> \o Reading(Tail(s), m)

\* s, read by backslash pairs from left to right, holds \$NAME or \${NAME}
RECURSIVE HasEscapedRef(_)
HasEscapedRef(s) ==
    IF Len(s) < 2 THEN FALSE
    ELSE IF s[1] = BSL
    THEN \/ s[2] = "$" /\ (PlainRef(Tail(s)) \/ BracedRef(Tail(s)))
         \/ HasEscapedRef(SubSeq(s, 3, Len(s)))
    ELSE HasEscapedRef(Tail(s))

\* C6: in a double-quoted value a reference preceded by a backslash is not
\* substituted and loses exactly that backslash, whether or not its name is
\* defined, while every unescaped reference of the value is expanded.
C6_EscapedReference ==
    (IsQuoted(line, DQ) /\ HasEscapedRef(QuotedBody(line))) =>
        /\ err = "nil"
        /\ value = Reading(QuotedBody(line), presets)

\* s decoded by backslash pairs alone, from left to right
RECURSIVE PairDecode(_)
PairDecode(s) ==
    IF s = <<>> THEN <<>>
    ELSE IF s[1] = BSL /\ Len(s) >= 2
    THEN Escaped(s[2]) \o PairDecode(SubSeq(s, 3, Len(s)))
    ELSE <<s[1]>> \o PairDecode(Tail(s))

\* no $ of s starts a reference
NoReference(s) ==
    \A p \in 1..Len(s) :
        s[p] = "$" => ~(p < Len(s) /\ s[p + 1] \in IdentChars \cup {"{", "("})

\* C7: a double-quoted value is decoded by backslash pairs from left to
\* right: \n is a newline, \r a carriage return, any other pair its second
\* character; an escaped backslash before n or r gives a backslash and the
\* letter.
C7_EscapePairs ==
    (IsQuoted(line, DQ) /\ NoReference(QuotedBody(line))) =>
        /\ err = "nil"
        /\ value = PairDecode(QuotedBody(line))

----------------------------------------------------------------------------
(* References in unquoted and double-quoted values *)

\* the line gives K a value
IsValueOfK(l) == Len(l) >= 2 /\ SubSeq(l, 1, 2) = <<"K", "=">>

\* the text of the value: what the double quotes hold, or the unquoted value
\* without the spaces around it
ValueText(l) ==
    IF IsQuoted(l, DQ) THEN QuotedBody(l) ELSE Trim(SubSeq(l, 3, Len(l)), {" "})

\* C8: in an unquoted or double-quoted value every unescaped reference $NAME
\* or ${NAME} is replaced by the value the mapping holds for NAME, by the
\* empty string when it holds none, without an error, and the text around the
\* references is kept as it is.
C8_ReferencesExpanded ==
    (IsValueOfK(line) /\ ~IsQuoted(line, SQ) /\ ~Contains(line, BSL)) =>
        /\ err = "nil"
        /\ value = Reading(ValueText(line), presets)

----------------------------------------------------------------------------
(* Comments *)

\* the line gives K a field in the quote q
IsField(l, q) ==
    /\ Len(l) >= 4
    /\ SubSeq(l, 1, 3) = <<"K", "=", q>>
    /\ Contains(SubSeq(l, 4, Len(l)), q)

\* what stands between the quotes of the field
FieldContent(l, q) == SubSeq(l, 4, 3 + Index(SubSeq(l, 4, Len(l)), q))

\* what follows the closing quote of the field
FieldTail(l, q) == SubSeq(l, 5 + Index(SubSeq(l, 4, Len(l)), q), Len(l))

\* nothing, or spaces and a # comment, with no quote character
PlainComment(t) ==
    /\ ~Contains(t, DQ)
    /\ ~Contains(t, SQ)
    /\ t = <<>> \/ HasPrefix(TrimLeft(t, {" "}), <<"#">>)

\* C9: when the value of a line is one quoted field, holding any number of #,
\* and what follows it is nothing or spaces and a # comment with no quote
\* character, the parsed value is the content of the field, every # of it
\* kept and the comment removed.
C9_QuotedHashKept ==
    \A q \in {DQ, SQ} :
        (IsField(line, q) /\ PlainComment(FieldTail(line, q))) =>
            /\ err = "nil"
            /\ value = FieldContent(line, q)

\* the line up to its first #
BeforeHash(l) == SubSeq(l, 1, Index(l, "#"))

IsPrefix(s, t) == Len(s) <= Len(t) /\ SubSeq(t, 1, Len(s)) = s

\* C10: when a line has no quote character before its first #, everything
\* from that # on is discarded whatever the comment holds, and the parsed
\* value is the text between the delimiter and the # without the spaces
\* around it; what the comment stripper returns is a prefix of the line.
C10_CommentDiscarded ==
    /\ (/\ IsValueOfK(line)
        /\ Contains(line, "#")
        /\ ~Contains(BeforeHash(line), DQ)
        /\ ~Contains(BeforeHash(line), SQ)) =>
            /\ err = "nil"
            /\ stripped = BeforeHash(line)
            /\ value = Trim(SubSeq(BeforeHash(line), 3, Len(BeforeHash(line))), {" "})
    /\ IsPrefix(stripped, line)

----------------------------------------------------------------------------
(* The delimiter *)

\* the line is made of letters, `=` and `:` alone
IsPlain(l) == l # <<>> /\ \A p \in 1..Len(l) : l[p] \in {"a", "b", "=", ":"}

\* the first c of l stands at p
FirstAt(l, c, p) == l[p] = c /\ \A q \in 1..(p - 1) : l[q] # c

\* l has a `:` with no `=` before it
ColonFirst(l) ==
    \E p \in 1..Len(l) : FirstAt(l, ":", p) /\ \A q \in 1..(p - 1) : l[q] # "="

\* the line was split at p
SplitAt(p) ==
    /\ err = "nil"
    /\ key = SubSeq(line, 1, p - 1)
    /\ value = SubSeq(line, p + 1, Len(line))

\* C11: a line is split at its first `:` when it has a `:` and has no `=` or
\* has its first `:` before its first `=`, and at its first `=` otherwise;
\* every later `=` or `:` belongs to the value.
C11_FirstDelimiter ==
    IsPlain(line) =>
        IF ColonFirst(line)
        THEN \E p \in 1..Len(line) : FirstAt(line, ":", p) /\ SplitAt(p)
        ELSE Contains(line, "=") =>
                 \E p \in 1..Len(line) : FirstAt(line, "=", p) /\ SplitAt(p)

\* a line split at its `:` with a `=` in its value, as `OPTION_A: Foo=bar`
C11_Witness ==
    /\ IsPlain(line)
    /\ ColonFirst(line)
    /\ err = "nil"
    /\ key # <<>>
    /\ Contains(value, "=")
    /\ Contains(value, ":")

----------------------------------------------------------------------------
(* The key *)

\* the line gives the value 1 to what stands before its `=`
IsKeyLine(l) ==
    /\ Len(l) >= 2
    /\ SubSeq(l, Len(l) - 1, Len(l)) = <<"=", "1">>
    /\ ~Contains(SubSeq(l, 1, Len(l) - 2), "=")
    /\ ~Contains(l, "A")

LeftHandSide(l) == SubSeq(l, 1, Len(l) - 2)

Blank == {" ", TAB}

\* t starts with the keyword export and a space or tab after it
ExportLed(t) == Len(t) >= 7 /\ SubSeq(t, 1, 6) = Export /\ t[7] \in Blank

\* C12: the key is the left-hand side without the spaces and tabs around it
\* and without one leading export keyword, which is removed only when a space
\* or tab follows it; exportFOO, export_FOO and export.FOO are kept, and only
\* the first export of `export exportFoo` is removed.
C12_ExportKey ==
    IsKeyLine(line) =>
        /\ err = "nil"
        /\ value = Str1("1")
        /\ key = IF ExportLed(TrimLeft(LeftHandSide(line), Blank))
                 THEN Trim(SubSeq(TrimLeft(LeftHandSide(line), Blank), 7,
                                  Len(TrimLeft(LeftHandSide(line), Blank))), Blank)
                 ELSE Trim(LeftHandSide(line), Blank)

\* `export exportF` has been parsed: the second export stays in the key
C12_Witness ==
    /\ IsKeyLine(line)
    /\ ContainsSeq(line, Export \o <<" ">> \o Export \o <<"F">>)
    /\ key = Export \o <<"F">>

----------------------------------------------------------------------------
(* The end of a parse *)

\* a comment line
IsComment(l) == l # <<>> /\ l[1] = "#"

\* the line without its comment
Uncommented(l) == IF Contains(l, "#") THEN BeforeHash(l) ELSE l

\* a line that is not ignored and, without its comment, has no `=` and no `:`
IsBad(l) ==
    /\ ~IsComment(l)
    /\ ~Contains(Uncommented(l), "=")
    /\ ~Contains(Uncommented(l), ":")

\* a line NAME=text or NAME:text with a one-letter name
Assigns(l) == ~IsComment(l) /\ ~IsBad(l)

KeyOfLine(l) == <<l[1]>>

TextOfLine(l) == SubSeq(l, 3, Len(l))

\* the first bad line of the document is line k
FirstBad(ls, k) == IsBad(ls[k]) /\ \A j \in 1..(k - 1) : ~IsBad(ls[j])

\* m holds exactly what the first n lines of ls assign, each key with the
\* text of the last of these lines that assigns it
HoldsAssignments(m, ls, n) ==
    /\ DOMAIN m = {KeyOfLine(ls[j]) : j \in {q \in 1..n : Assigns(ls[q])}}
    /\ \A j \in 1..n :
          (Assigns(ls[j]) /\ \A q \in (j + 1)..n : ~(Assigns(ls[q]) /\ KeyOfLine(ls[q]) = KeyOfLine(ls[j])))
              => m[KeyOfLine(ls[j])] = TextOfLine(ls[j])

\* C13: a parse stops at the first line that is not ignored and has no `=`
\* and no `:` once its comment is stripped; it returns a format error and a
\* mapping that holds exactly what the lines before that line assigned; no
\* later line adds a key or changes a value.
C13_StopsAtBadLine ==
    /\ pc = "failed" =>
          \E k \in 1..Len(lines) :
              /\ FirstBad(lines, k)
              /\ lineNo = k + 1
              /\ err = "format"
              /\ HoldsAssignments(parsed, lines, k - 1)
              /\ parse(Document(lines)) = [envMap |-> parsed, err |-> "format"]
    /\ pc = "parsed" => \A k \in 1..Len(lines) : ~IsBad(lines[k])
    /\ pc = "parse" => \A k \in 1..(lineNo - 1) : ~IsBad(lines[k])

\* a parse has failed after A=1, and the line after the bad one assigns A
C13_Witness ==
    /\ pc = "failed"
    /\ Holds(parsed, Str1("A"), Str1("1"))
    /\ lineNo <= Len(lines)
    /\ lines[lineNo] = Str3("A", "=", "2")

----------------------------------------------------------------------------
(* The merged mapping *)

\* the lines of the s-th source
SourceLines(s) == fs[ReadNames[s]].lines

\* line j of the s-th source assigns n
AssignsKey(s, j, n) == Assigns(SourceLines(s)[j]) /\ KeyOfLine(SourceLines(s)[j]) = n

\* the line numbers of the s-th source
LinesOf(s) == 1..Len(SourceLines(s))

\* line j2 of source s2 comes after line j of source s
ComesAfter(s, j, s2, j2) == s2 > s \/ (s2 = s /\ j2 > j)

\* line j of source s is the last line of the first k sources that assigns n
IsLast(k, s, j, n) ==
    /\ AssignsKey(s, j, n)
    /\ \A s2 \in 1..k : \A j2 \in LinesOf(s2) :
          ComesAfter(s, j, s2, j2) => ~AssignsKey(s2, j2, n)

\* the value parseLine gives line j of source s after the lines before it
Decoded(s, j) ==
    parseLine(SourceLines(s)[j],
              ParseLines(SubSeq(SourceLines(s), 1, j - 1), EmptyMap).envMap).value

\* m holds the keys the first k sources assign, each with the value decoded
\* from the last line that assigns it
MergedUpTo(m, k) ==
    /\ DOMAIN m = {n \in Names : \E s \in 1..k : \E j \in LinesOf(s) : AssignsKey(s, j, n)}
    /\ \A n \in Names : \A s \in 1..k : \A j \in LinesOf(s) :
          IsLast(k, s, j, n) => m[n] = Decoded(s, j)

\* C14: when a sequence of sources is read without error, every key of the
\* merged mapping has the value decoded from the last line that assigns it,
\* sources in the order given and lines from top to bottom.
C14_LastAssignmentWins ==
    pc = "readDone" =>
        /\ readErr = "nil"
        /\ MergedUpTo(inFileVariables, Len(ReadNames))

\* two sources are read; the first gives A the value 1 twice over, the second
\* assigns it last
C14_Witness ==
    /\ pc = "readDone"
    /\ Len(ReadNames) = 2
    /\ SourceLines(1) = <<Str3("A", "=", "1"), <<"A", "=", "$", "{", "A", "}", "2">>>>
    /\ SourceLines(2) = <<Str3("A", "=", "1")>>
    /\ Holds(inFileVariables, Str1("A"), Str1("1"))

----------------------------------------------------------------------------
(* What interpolation sees *)

\* the text starts with a reference
IsRefText(t) == t # <<>> /\ t[1] = "$"

\* the name of the reference the text starts with, $N or ${N}
RefNameOf(t) == IF t[2] = "{" THEN <<t[3]>> ELSE <<t[2]>>

\* the text after that reference
RefSuffix(t) == IF t[2] = "{" THEN SubSeq(t, 5, Len(t)) ELSE SubSeq(t, 3, Len(t))

\* ValueAt: the value of line j of a document, whose text is a literal or a
\* reference and a literal; Lookup: the value the first j lines of the
\* document leave for n, empty when they leave none
RECURSIVE ValueAt(_, _)
RECURSIVE Lookup(_, _, _)
ValueAt(doc, j) ==
    IF IsRefText(TextOfLine(doc[j]))
    THEN Lookup(doc, j - 1, RefNameOf(TextOfLine(doc[j]))) \o RefSuffix(TextOfLine(doc[j]))
    ELSE TextOfLine(doc[j])

Lookup(doc, j, n) ==
    IF j = 0 THEN <<>>
    ELSE IF Assigns(doc[j]) /\ KeyOfLine(doc[j]) = n THEN ValueAt(doc, j)
    ELSE Lookup(doc, j - 1, n)

\* C15: the value of a line is interpolated against the mapping the earlier
\* lines of its own document built: a key assigned only later expands to the
\* empty string, a line that refers to its own key sees the previous value of
\* the key, and neither the sources read before nor the system environment
\* are seen.
C15_InterpolationScope ==
    pc = "readDone" =>
        \A n \in DOMAIN inFileVariables :
            \A s \in 1..Len(ReadNames) : \A j \in LinesOf(s) :
                IsLast(Len(ReadNames), s, j, n) =>
                    inFileVariables[n] = ValueAt(SourceLines(s), j)

\* the system and the first source define A; the second source assigns B the
\* value of A before it assigns A, and B is empty
C15_Witness ==
    /\ pc = "readDone"
    /\ Len(ReadNames) = 2
    /\ Holds(sysEnv, Str1("A"), Str1("9"))
    /\ SourceLines(1) = <<Str3("A", "=", "1")>>
    /\ SourceLines(2) = <<<<"B", "=", "$", "A">>, Str3("A", "=", "1")>>
    /\ Holds(inFileVariables, Str1("B"), <<>>)

----------------------------------------------------------------------------
(* read after a source has failed *)

\* C16: when the i-th source is the first that fails, read returns its error
\* and the merge of the sources before it: no key of the failed source is in
\* the mapping, and no later source is read or merged.
C16_FailedSourceDropped ==
    pc = "readFailed" =>
        /\ i = FirstFailed(fs, ReadNames)
        /\ readErr = readFile(fs, ReadNames[i]).err
        /\ readErr # "nil"
        /\ MergedUpTo(inFileVariables, i - 1)
        /\ read(fs, ReadNames) = [envMap |-> inFileVariables, err |-> readErr]

\* the first source fails on its second line, after it has assigned A, and a
\* second source that assigns A is left unread: the mapping is empty
C16_Witness ==
    /\ pc = "readFailed"
    /\ i = 1
    /\ readErr = "format"
    /\ Len(ReadNames) = 2
    /\ SourceLines(1)[1] = Str3("A", "=", "1")
    /\ SourceLines(2) = <<Str3("A", "=", "1")>>
    /\ inFileVariables = EmptyMap

----------------------------------------------------------------------------
(* `$` before a parenthesis *)

\* s read from left to right: a `$` before `(` is dropped and what follows
\* it is kept, $NAME stands for the value m holds for NAME
RECURSIVE ParenReading(_, _)
ParenReading(s, m) ==
    IF s = <<>> THEN <<>>
    ELSE IF s[1] = "$" /\ HasAt(s, 2, "(")
    THEN <<"(">> \o SubSeq(s, 3, IdentEnd(s, 3) - 1)
             \o ParenReading(SubSeq(s, IdentEnd(s, 3), Len(s)), m)
    ELSE IF PlainRef(s)
    THEN MapGet(m, SubSeq(s, 2, IdentEnd(s, 2) - 1))
             \o ParenReading(SubSeq(s, IdentEnd(s, 2), Len(s)), m)
    ELSE <<s[1]>> \o ParenReading(Tail(s), m)

\* C17: a reference whose `$` stands right before `(` is not replaced by the
\* value of its name, defined or not: the matched text is emitted without
\* its `$`.
C17_ParenthesisLiteral ==
    (IsValueOfK(line) /\ ContainsSeq(line, <<"$", "(">>)) =>
        /\ err = "nil"
        /\ value = ParenReading(ValueText(line), presets)

----------------------------------------------------------------------------
(* Quotes that do not close *)

\* the value of the line without the spaces around it
TrimmedValue(l) == Trim(SubSeq(l, 3, Len(l)), {" "})

\* t is longer than one character and starts and ends with the quote q
IsWrapped(t, q) == Len(t) > 1 /\ t[1] = q /\ t[Len(t)] = q

\* s with each $NAME and ${NAME} replaced by the value m holds for NAME;
\* nothing else is decoded
RECURSIVE Interpolated(_, _)
Interpolated(s, m) ==
    IF s = <<>> THEN <<>>
    ELSE IF BracedRef(s)
    THEN MapGet(m, SubSeq(s, 3, IdentEnd(s, 3) - 1))
             \o Interpolated(SubSeq(s, IdentEnd(s, 3) + 1, Len(s)), m)
    ELSE IF PlainRef(s)
    THEN MapGet(m, SubSeq(s, 2, IdentEnd(s, 2) - 1))
             \o Interpolated(SubSeq(s, IdentEnd(s, 2), Len(s)), m)
    ELSE <<s[1]>> \o Interpolated(Tail(s), m)

\* C18: the quotes of a value are stripped only when the value, without the
\* spaces around it, is longer than one character and starts and ends with
\* the same quote; a value that opens a quote and does not close it, or is a
\* lone quote, keeps the quote, has no escape decoded and is returned as
\* interpolation leaves it, unchanged when it has no `$`.
C18_UnclosedQuoteKept ==
    IsValueOfK(line) =>
        /\ err = "nil"
        /\ value = IF IsWrapped(TrimmedValue(line), SQ)
                   THEN SubSeq(TrimmedValue(line), 2, Len(TrimmedValue(line)) - 1)
                   ELSE IF IsWrapped(TrimmedValue(line), DQ)
                   THEN Reading(SubSeq(TrimmedValue(line), 2, Len(TrimmedValue(line)) - 1), presets)
                   ELSE IF Contains(TrimmedValue(line), "$")
                   THEN Interpolated(TrimmedValue(line), presets)
                   ELSE TrimmedValue(line)

\* a value that opens a double quote, holds a backslash pair and does not
\* close the quote has been parsed and is unchanged
C18_Witness ==
    /\ IsValueOfK(line)
    /\ Len(TrimmedValue(line)) > 1
    /\ TrimmedValue(line)[1] = DQ
    /\ ~IsWrapped(TrimmedValue(line), DQ)
    /\ Contains(TrimmedValue(line), BSL)
    /\ value = TrimmedValue(line)

----------------------------------------------------------------------------
(* Selective mode beside full-set mode *)

\* the map Get returns in full-set mode for the same files, system
\* environment and precedence flag
FullSetMap == get([cfg EXCEPT !.variables = <<>>], fs, sysEnv).envMap

\* the system sets n to the empty string
EmptyInSystem(n) == n \in DOMAIN sysEnv /\ sysEnv[n] = <<>>

\* the two modes agree on n
Agree(n) ==
    /\ (n \in DOMAIN envMap) = (n \in DOMAIN FullSetMap)
    /\ n \in DOMAIN envMap => envMap[n] = FullSetMap[n]
    /\ InNotFound(n) = (n \notin DOMAIN FullSetMap)

\* C19 as stated: selective mode agrees with full-set mode on every
\* requested name.
C19_ModesAgree == Selective => \A n \in Requested : Agree(n)

\* C19, amended: the modes agree on every requested name the system does
\* not set to the empty string. Such a name is always a key of the full-set
\* map, while selective mode takes it for unset: it returns the file value
\* when the files define the name, whatever the precedence flag, and lists
\* the name as not found when they do not.
C19_ModesAgreeButEmpty ==
    Selective =>
        \A n \in Requested :
            IF ~EmptyInSystem(n) THEN Agree(n)
            ELSE /\ n \in DOMAIN FullSetMap
                 /\ IF n \in DOMAIN inFileVariables
                    THEN /\ Holds(envMap, n, inFileVariables[n])
                         /\ ~InNotFound(n)
                         /\ FullSetMap[n] = IF cfg.systemFirst THEN <<>> ELSE inFileVariables[n]
                    ELSE /\ n \notin DOMAIN envMap
                         /\ InNotFound(n)
                         /\ FullSetMap[n] = <<>>

\* under PrioritizeSystem a requested name is set to the empty string by the
\* system and to a value by the files: selective mode returns the file value,
\* full-set mode the empty string
C19_Witness ==
    /\ Selective
    /\ cfg.systemFirst
    /\ \E n \in Requested :
          /\ EmptyInSystem(n)
          /\ n \in DOMAIN inFileVariables
          /\ inFileVariables[n] # <<>>
          /\ Holds(envMap, n, inFileVariables[n])
          /\ Holds(FullSetMap, n, <<>>)

----------------------------------------------------------------------------
(* One pass of interpolation *)

\* the mapping holds a value of A with a `$` in it
HoldsReference(m) == Str1("A") \in DOMAIN m /\ Contains(m[Str1("A")], "$")

\* C20: interpolation is one pass from left to right; the text put in place
\* of a reference is not scanned for references, so a $NAME that came into
\* the value of a variable literally is found as it is in every later value
\* that refers to the variable.
C20_SinglePass ==
    /\ (line # <<>> /\ line[1] = "A") =>
          value \in {<<"$", "B">>, <<"$", "{", "B", "}">>}
    /\ (IsValueOfK(line) /\ HoldsReference(presets)) =>
          /\ err = "nil"
          /\ value = Interpolated(ValueText(line), presets)

\* B is defined, A holds the text $B, and a value that refers to A has been
\* parsed with $B in it
C20_Witness ==
    /\ IsValueOfK(line)
    /\ Holds(presets, Str1("B"), Str1("w"))
    /\ Holds(presets, Str1("A"), <<"$", "B">>)
    /\ ContainsSeq(ValueText(line), <<"$", "A">>)
    /\ ContainsSeq(value, <<"$", "B">>)

----------------------------------------------------------------------------
(* An escaped backslash in double quotes *)

\* s, read by backslash pairs from left to right, holds an escaped backslash
RECURSIVE HasEscapedBackslash(_)
HasEscapedBackslash(s) ==
    IF Len(s) < 2 THEN FALSE
    ELSE IF s[1] = BSL
    THEN s[2] = BSL \/ HasEscapedBackslash(SubSeq(s, 3, Len(s)))
    ELSE HasEscapedBackslash(Tail(s))

\* C21: in a double-quoted value two backslashes always give one literal
\* backslash and never escape a `$` after them: two backslashes followed by
\* $NAME give one backslash followed by the value of NAME.
C21_EscapedBackslash ==
    (IsQuoted(line, DQ) /\ HasEscapedBackslash(QuotedBody(line))) =>
        /\ err = "nil"
        /\ value = Reading(QuotedBody(line), presets)

============================================================================
